---- MODULE Spec2Model ----
(***************************************************************************)
(* Entity-table pipeline of the NER workshop.                              *)
(*                                                                         *)
(* Two variants of the same cells exist in the repository:                 *)
(*   "notebook": NER_workshop.ipynb, documents are the rows of             *)
(*               df_articles['processed_doc'], keyed by enumerate index    *)
(*               ('Doc_index');                                            *)
(*   "files":    the earlier export, documents are the paths returned by   *)
(*               glob, keyed by path ('File_name').                        *)
(* The cells run top to bottom; an exception ends the run.                 *)
(***************************************************************************)
EXTENDS Integers, Sequences, FiniteSets, TLC

VARIABLES variant, docs, pc, idx, filepath, all_entities, df_NER,
          explode_runs, target, filtered, displayed, raised,
          nlp_calls, run_count,
          heap, entities, entity_type_ref, entity_identified_ref,
          all_entities_refs, printed, id, files, df_articles

\* State of the cells around the pipeline: the single-document cells, the
\* list objects behind the names of the accumulation loop, and the loop
\* that writes the articles to files
cellvars == <<heap, entities, entity_type_ref, entity_identified_ref,
              all_entities_refs, printed, id, files, df_articles>>

vars == <<variant, docs, pc, idx, filepath, all_entities, df_NER,
          explode_runs, target, filtered, displayed, raised,
          nlp_calls, run_count, cellvars>>

(***************************************************************************)
(* Bounds of the model and the inputs drawn within them.                   *)
(***************************************************************************)
\* Most documents in one collection
MaxDocs == 3

\* Most spans the tagger emits over one collection
MaxSpans == 3

\* Spans the tagger may emit: objects with .text and .label_
SpanPool ==
    { [text |-> "Apple", label_ |-> "ORG"],
      [text |-> "Jane",  label_ |-> "PERSON"],
      [text |-> "Paris", label_ |-> "GPE"] }

\* Paths a directory listing may hold
FilePool == {"files/1.txt", "files/2.txt", "files/10.txt"}

\* Category labels asked for in the filter cells
Targets == {"GPE", "LAW", "MONEY", "PERSON", "gpe", " GPE"}

SeqsUpTo(S, n) == UNION {[1..k -> S] : k \in 0..n}

Injective(s) == \A i, j \in DOMAIN s : s[i] = s[j] => i = j

\* The n-th smallest member of a set of positions
Nth(S, n) == CHOOSE k \in S : Cardinality({m \in S : m < k}) = n - 1

\* A document that open(), read() or nlp() raises on: it never gets a Doc
Unprocessable == [ents |-> <<>>, fails |-> TRUE]

\* Collections of n documents with at most t spans in all; a document is
\* the doc.ents the tagger gives for it, or one the tagger or reader raises on
RECURSIVE DocLists(_, _)
DocLists(n, t) ==
    IF n = 0 THEN {<<>>}
    ELSE UNION { { <<[ents |-> e, fails |-> FALSE]>> \o rest :
                     rest \in DocLists(n - 1, t - Len(e)) } :
                 e \in SeqsUpTo(SpanPool, t) }
         \cup { <<Unprocessable>> \o rest : rest \in DocLists(n - 1, t) }

\* df_articles['processed_doc']: one spaCy Doc per article
ProcessedDocChoices == UNION {DocLists(n, MaxSpans) : n \in 0..MaxDocs}

\* Directory listings: distinct paths in any order
Listings == {names \in SeqsUpTo(FilePool, MaxDocs) : Injective(names)}

\* articles = glob.glob(...): distinct paths in listing order, each with the
\* Doc that nlp(open(filepath).read()) yields for it
ArticlesChoices ==
    UNION { { [i \in DOMAIN names |->
                 [File_name |-> names[i], ents |-> s[i].ents,
                  fails |-> s[i].fails]] :
              s \in DocLists(Len(names), MaxSpans) } :
            names \in Listings }

(***************************************************************************)
(* Python and pandas values.                                               *)
(***************************************************************************)
\* A DataFrame cell is a Python list, a scalar, or NaN
List(xs) == [list |-> xs]

Scalar(x) == [val |-> x]

NaN == [nan |-> TRUE]

IsList(c) == "list" \in DOMAIN c

IsScalar(c) == "val" \in DOMAIN c

IsNaN(c) == "nan" \in DOMAIN c

\* An empty DataFrame: pd.DataFrame([]) has no columns and no rows
EmptyFrame == [index_name |-> "", columns |-> <<>>, rows |-> <<>>]

\* Character codes of a path (ASCII), for Python's string comparison
StrCodes(s) ==
    CASE s = "files/1.txt"  -> <<102, 105, 108, 101, 115, 47, 49, 46, 116, 120, 116>>
      [] s = "files/2.txt"  -> <<102, 105, 108, 101, 115, 47, 50, 46, 116, 120, 116>>
      [] s = "files/10.txt" -> <<102, 105, 108, 101, 115, 47, 49, 48, 46, 116, 120, 116>>

RECURSIVE CodesLess(_, _)
CodesLess(a, b) ==
    IF b = <<>> THEN FALSE
    ELSE IF a = <<>> THEN TRUE
    ELSE IF Head(a) # Head(b) THEN Head(a) < Head(b)
    ELSE CodesLess(Tail(a), Tail(b))

\* Variant of StrLess that puts the shorter string first
StrLess_shortlex(s, t) ==
    IF Len(StrCodes(s)) # Len(StrCodes(t))
    THEN Len(StrCodes(s)) < Len(StrCodes(t))
    ELSE CodesLess(StrCodes(s), StrCodes(t))

\* Python str.__lt__: lexicographic by code point
StrLess(s, t) == CodesLess(StrCodes(s), StrCodes(t))

(***************************************************************************)
(* Accumulation cell.                                                      *)
(***************************************************************************)
\* Variant of entity_type that collects each label once
entity_type_unique(doc) ==
    LET keep == {k \in DOMAIN doc.ents :
                   \A m \in 1..(k - 1) : doc.ents[m].label_ # doc.ents[k].label_}
    IN  [n \in 1..Cardinality(keep) |-> doc.ents[Nth(keep, n)].label_]

\* [ent.label_ for ent in doc.ents]
entity_type(doc) == [i \in DOMAIN doc.ents |-> doc.ents[i].label_]

\* Variant of entity_identified that collects the texts back to front
entity_identified_reversed(doc) ==
    [i \in DOMAIN doc.ents |-> doc.ents[Len(doc.ents) + 1 - i].text]

\* [ent.text for ent in doc.ents]
entity_identified(doc) == [i \in DOMAIN doc.ents |-> doc.ents[i].text]

\* Variant of ent_dict that gives every record the key 0
ent_dict_one_key(i, doc) ==
    [Doc_index |-> 0,
     Entity_type |-> entity_type(doc),
     Entity_identified |-> entity_identified(doc)]

\* ent_dict of the notebook loop
ent_dict(i, doc) ==
    [Doc_index |-> i,
     Entity_type |-> entity_type(doc),
     Entity_identified |-> entity_identified(doc)]

\* ent_dict of the file loop
ent_dict_file(doc) ==
    [File_name |-> doc.File_name,
     Entity_type |-> entity_type(doc),
     Entity_identified |-> entity_identified(doc)]

\* Variant of append that puts the new record first
append_front(lst, d) == <<d>> \o lst

\* Variant of append that skips a record without entities
append_nonempty(lst, d) == IF d.Entity_type = <<>> THEN lst ELSE Append(lst, d)

\* all_entities.append(ent_dict)
append(lst, d) == Append(lst, d)

(***************************************************************************)
(* pandas operations used by the cells.  A DataFrame is its index name,    *)
(* its column names in order and its rows; a row is its index label and    *)
(* its cells by column name.                                               *)
(***************************************************************************)
\* pd.DataFrame(list_of_dicts): RangeIndex, columns in the dicts' key order
DataFrame(dicts, keycol) ==
    IF dicts = <<>> THEN EmptyFrame
    ELSE [index_name |-> "",
          columns |-> <<keycol, "Entity_type", "Entity_identified">>,
          rows |-> [i \in DOMAIN dicts |->
                      [index |-> Scalar(i - 1),
                       cells |-> (keycol :> Scalar(dicts[i][keycol]))
                                 @@ ("Entity_type" :> List(dicts[i].Entity_type))
                                 @@ ("Entity_identified" :>
                                       List(dicts[i].Entity_identified))]]]

HasColumn(df, col) == \E i \in DOMAIN df.columns : df.columns[i] = col

\* Variant of ValueLess for a descending sort
ValueLess_descending(by, a, b) ==
    IF by = "Doc_index" THEN a > b ELSE StrLess(b, a)

\* Order of the values of column `by`: integers for Doc_index, str otherwise
ValueLess(by, a, b) == IF by = "Doc_index" THEN a < b ELSE StrLess(a, b)

RECURSIVE InsertRow(_, _, _)
InsertRow(sorted, row, by) ==
    IF sorted = <<>> THEN <<row>>
    ELSE IF ValueLess(by, row.cells[by].val, Head(sorted).cells[by].val)
         THEN <<row>> \o sorted
         ELSE <<Head(sorted)>> \o InsertRow(Tail(sorted), row, by)

RECURSIVE SortRows(_, _)
SortRows(rows, by) ==
    IF rows = <<>> THEN <<>>
    ELSE InsertRow(SortRows(SubSeq(rows, 1, Len(rows) - 1), by),
                   rows[Len(rows)], by)

\* Variant of sort_values that leaves the rows as they are
sort_values_unsorted(df, by) == df

\* df.sort_values(by=..., ascending=True); rows keep their index labels
sort_values(df, by) == [df EXCEPT !.rows = SortRows(df.rows, by)]

\* df.set_index([col]): the column becomes the index
set_index(df, col) ==
    [index_name |-> col,
     columns |-> SelectSeq(df.columns, LAMBDA c : c # col),
     rows |-> [i \in DOMAIN df.rows |->
                 [index |-> df.rows[i].cells[col],
                  cells |-> [c \in DOMAIN df.rows[i].cells \ {col} |->
                               df.rows[i].cells[c]]]]]

\* One column with the frame's index
Column(df, col) ==
    [i \in DOMAIN df.rows |->
       [index |-> df.rows[i].index, value |-> df.rows[i].cells[col]]]

\* Variant of ExplodeEntry that keeps one row per distinct element
ExplodeEntry_unique(e) ==
    IF IsList(e.value)
    THEN IF e.value.list = <<>>
         THEN << [index |-> e.index, value |-> NaN] >>
         ELSE LET xs == e.value.list
                  keep == {k \in DOMAIN xs : \A m \in 1..(k - 1) : xs[m] # xs[k]}
              IN  [n \in 1..Cardinality(keep) |->
                     [index |-> e.index, value |-> Scalar(xs[Nth(keep, n)])]]
    ELSE <<e>>

\* Variant of ExplodeEntry that emits the elements back to front
ExplodeEntry_reversed(e) ==
    IF IsList(e.value)
    THEN IF e.value.list = <<>>
         THEN << [index |-> e.index, value |-> NaN] >>
         ELSE [k \in DOMAIN e.value.list |->
                 [index |-> e.index,
                  value |-> Scalar(e.value.list[Len(e.value.list) + 1 - k])]]
    ELSE <<e>>

\* Variant of ExplodeEntry that takes a cell that is no list for missing
ExplodeEntry_scalar_missing(e) ==
    IF IsList(e.value)
    THEN IF e.value.list = <<>>
         THEN << [index |-> e.index, value |-> NaN] >>
         ELSE [k \in DOMAIN e.value.list |->
                 [index |-> e.index, value |-> Scalar(e.value.list[k])]]
    ELSE << [index |-> e.index, value |-> NaN] >>

\* What one element of a Series explodes to
ExplodeEntry(e) ==
    IF IsList(e.value)
    THEN IF e.value.list = <<>>
         THEN << [index |-> e.index, value |-> NaN] >>
         ELSE [k \in DOMAIN e.value.list |->
                 [index |-> e.index, value |-> Scalar(e.value.list[k])]]
    ELSE <<e>>

\* pd.Series.explode: list-likes become one row per element with the index
\* label repeated, an empty list becomes one NaN row, scalars stay
RECURSIVE SeriesExplode(_)
SeriesExplode(s) ==
    IF s = <<>> THEN <<>>
    ELSE ExplodeEntry(Head(s)) \o SeriesExplode(Tail(s))

IndexOf(s) == [i \in DOMAIN s |-> s[i].index]

ColumnSet(df) == {df.columns[i] : i \in DOMAIN df.columns}

\* The exploded columns can be put side by side only if their indexes agree
\* (pandas cannot reindex on an axis with duplicate labels)
ExplodeAligned(df) ==
    \A c, d \in ColumnSet(df) :
        IndexOf(SeriesExplode(Column(df, c))) = IndexOf(SeriesExplode(Column(df, d)))

\* df.apply(pd.Series.explode): each column exploded on its own
apply_explode(df) ==
    LET exploded == [c \in ColumnSet(df) |-> SeriesExplode(Column(df, c))]
        first == exploded[df.columns[1]]
    IN  [df EXCEPT !.rows =
           [k \in DOMAIN first |->
              [index |-> first[k].index,
               cells |-> [c \in ColumnSet(df) |-> exploded[c][k].value]]]]

\* df.reset_index(): the index becomes the first column, new RangeIndex
reset_index(df) ==
    [index_name |-> "",
     columns |-> <<df.index_name>> \o df.columns,
     rows |-> [k \in DOMAIN df.rows |->
                 [index |-> Scalar(k - 1),
                  cells |-> (df.index_name :> df.rows[k].index)
                            @@ df.rows[k].cells]]]

\* A label with its surrounding whitespace stripped and in upper case
Normalized(label) ==
    CASE label = "gpe" -> "GPE"
      [] label = " GPE" -> "GPE"
      [] OTHER -> label

\* Variant of CellEquals that ignores letter case and surrounding whitespace
CellEquals_normalized(cell, label) ==
    IsScalar(cell) /\ Normalized(cell.val) = Normalized(label)

\* Variant of CellEquals in which a missing value matches every label
CellEquals_nan(cell, label) == IsNaN(cell) \/ (IsScalar(cell) /\ cell.val = label)

\* cell == label, elementwise: NaN and lists compare unequal to any string
CellEquals(cell, label) == IsScalar(cell) /\ cell.val = label

\* Variant of filter that keeps the rows where the mask is false
filter_negated(df, col, label) ==
    [df EXCEPT !.rows =
       SelectSeq(df.rows, LAMBDA r : ~(IsScalar(r.cells[col]) /\ r.cells[col].val = label))]

\* df[df[col] == label]: rows where the mask is true, labels and order kept
filter(df, col, label) ==
    [df EXCEPT !.rows =
       SelectSeq(df.rows, LAMBDA r : CellEquals(r.cells[col], label))]

Min(a, b) == IF a < b THEN a ELSE b

\* Variant of head that keeps the last n rows
head_last(df, n) ==
    [df EXCEPT !.rows =
       SubSeq(df.rows, Len(df.rows) - Min(n, Len(df.rows)) + 1, Len(df.rows))]

\* df[:n]
head(df, n) == [df EXCEPT !.rows = SubSeq(df.rows, 1, Min(n, Len(df.rows)))]

\* Size of the slice in the filter cells
DisplayCap == 15

(***************************************************************************)
(* The cells as actions.                                                   *)
(***************************************************************************)
KeyColumn == IF variant = "notebook" THEN "Doc_index" ELSE "File_name"

\* State of a run before its first cell
Start ==
    /\ idx = 0
    /\ filepath = ""
    /\ all_entities = <<>>
    /\ df_NER = EmptyFrame
    /\ explode_runs = 0
    /\ target = ""
    /\ filtered = EmptyFrame
    /\ displayed = EmptyFrame
    /\ raised = ""
    /\ nlp_calls = <<>>
    /\ run_count = 1
    /\ heap = <<>>
    /\ entities = <<>>
    /\ entity_type_ref = 0
    /\ entity_identified_ref = 0
    /\ all_entities_refs = <<>>
    /\ printed = <<>>
    /\ id = 0
    /\ files = <<>>
    /\ df_articles = <<>>

Init ==
    /\ \/ variant = "notebook" /\ docs \in ProcessedDocChoices /\ pc = "nlp"
       \/ variant = "files" /\ docs \in ArticlesChoices /\ pc = "accumulate"
    /\ Start

\* Variant of RowsUpTo that visits the rows last to first
RowsUpTo_reversed(n) == [i \in 1..n |-> n + 1 - i]

\* Positions of the rows 1..n, in row order
RowsUpTo(n) == [i \in 1..n |-> i]

\* Row of the first document the tagger fails on
FirstFailing ==
    CHOOSE i \in DOMAIN docs :
        docs[i].fails /\ \A j \in 1..(i - 1) : ~docs[j].fails

\* df_articles['processed_doc'] = df_articles['cleaned_text'].apply(nlp):
\* nlp is called on the rows in row order;
\* an exception of nlp on any row leaves the cell before the column is set
ApplyNlp ==
    /\ pc = "nlp"
    /\ IF \E i \in DOMAIN docs : docs[i].fails
       THEN /\ pc' = "error"
            /\ raised' = "Exception"
            /\ nlp_calls' = nlp_calls \o RowsUpTo(FirstFailing)
       ELSE /\ pc' = "accumulate"
            /\ raised' = raised
            /\ nlp_calls' = nlp_calls \o RowsUpTo(Len(docs))
    /\ UNCHANGED <<variant, docs, idx, filepath, all_entities, df_NER,
                   explode_runs, target, filtered, displayed, run_count,
                   cellvars>>

\* One iteration of: for idx, doc in enumerate(df_articles['processed_doc'])
AccumulateNotebook ==
    /\ pc = "accumulate"
    /\ variant = "notebook"
    /\ idx < Len(docs)
    /\ all_entities' = append(all_entities, ent_dict(idx, docs[idx + 1]))
    /\ idx' = idx + 1
    /\ UNCHANGED <<nlp_calls, run_count, cellvars>>
    /\ UNCHANGED <<variant, docs, pc, filepath, df_NER, explode_runs, target,
                   filtered, displayed, raised>>

\* One iteration of: for filepath in articles.  An exception of open(),
\* read() or nlp() leaves the loop with filepath bound to the failing path;
\* nlp was called on the text only if open() and read() succeeded
AccumulateFiles ==
    /\ pc = "accumulate"
    /\ variant = "files"
    /\ idx < Len(docs)
    /\ filepath' = docs[idx + 1].File_name
    /\ IF docs[idx + 1].fails
       THEN /\ pc' = "error"
            /\ raised' = "Exception"
            /\ \/ nlp_calls' = nlp_calls
               \/ nlp_calls' = Append(nlp_calls, idx + 1)
            /\ UNCHANGED <<idx, all_entities>>
       ELSE /\ all_entities' = append(all_entities, ent_dict_file(docs[idx + 1]))
            /\ idx' = idx + 1
            /\ nlp_calls' = Append(nlp_calls, idx + 1)
            /\ UNCHANGED <<pc, raised>>
    /\ UNCHANGED <<variant, docs, df_NER, explode_runs, target, filtered,
                   displayed, run_count, cellvars>>

\* df_NER = pd.DataFrame(all_entities); df_NER = df_NER.sort_values(by=key)
BuildFrame ==
    /\ pc = "accumulate"
    /\ idx = Len(docs)
    /\ LET df == DataFrame(all_entities, KeyColumn)
       IN  IF HasColumn(df, KeyColumn)
           THEN /\ df_NER' = sort_values(df, KeyColumn)
                /\ pc' = "explode"
                /\ raised' = raised
           ELSE /\ df_NER' = df
                /\ pc' = "error"
                /\ raised' = "KeyError"
    /\ UNCHANGED <<variant, docs, idx, filepath, all_entities, explode_runs,
                   target, filtered, displayed, nlp_calls, run_count, cellvars>>

\* The explode cell on the current df_NER:
\* df_NER = df_NER.set_index([key])
\* df_NER = df_NER.apply(pd.Series.explode).reset_index()
ExplodeCell ==
    /\ LET indexed == set_index(df_NER, KeyColumn)
       IN  IF ExplodeAligned(indexed)
           THEN /\ df_NER' = reset_index(apply_explode(indexed))
                /\ pc' = "query"
                /\ raised' = raised
           ELSE /\ df_NER' = indexed
                /\ pc' = "error"
                /\ raised' = "ValueError"
    /\ explode_runs' = explode_runs + 1
    /\ UNCHANGED <<variant, docs, idx, filepath, all_entities, target, filtered,
                   displayed, nlp_calls, run_count, cellvars>>

\* The explode cell, run after the DataFrame cell
Explode ==
    /\ pc = "explode"
    /\ ExplodeCell

\* Most runs of the explode cell in one session
MaxExplodeRuns == 2

\* The explode cell run again on the table it has already flattened
ReExplode ==
    /\ pc = "query"
    /\ explode_runs < MaxExplodeRuns
    /\ ExplodeCell

\* Variant of after_expression for a cell that assigns the value it shows
after_expression_assigned(df, value) == value

\* What a name is bound to after a cell that ends in an expression on it:
\* boolean indexing and slicing build new frames, and nothing is assigned
after_expression(df, value) == df

\* df_NER[df_NER['Entity_type'] == label][:15]
Query(label) ==
    /\ pc = "query"
    /\ target' = label
    /\ filtered' = filter(df_NER, "Entity_type", label)
    /\ displayed' = head(filter(df_NER, "Entity_type", label), DisplayCap)
    /\ df_NER' = after_expression(df_NER, displayed')
    /\ UNCHANGED <<variant, docs, pc, idx, filepath, all_entities,
                   explode_runs, raised, nlp_calls, run_count, cellvars>>

Next ==
    \/ ApplyNlp
    \/ AccumulateNotebook
    \/ AccumulateFiles
    \/ BuildFrame
    \/ Explode
    \/ \E label \in Targets : Query(label)

Spec == Init /\ [][Next]_vars

\* Most spans of one long document
MaxLongSpans == 17

\* n times the same span
Run(sp, n) == [k \in 1..n |-> sp]

\* doc.ents of a long document: mentions of one entity, interrupted by a
\* few mentions of another
LongEnts ==
    { Run(a, i) \o Run(b, j) \o Run(a, k) :
        <<a, b, i, j, k>> \in
          { t \in SpanPool \X SpanPool \X (0..MaxLongSpans) \X (0..2)
                   \X (0..MaxLongSpans) :
              /\ t[1] # t[2]
              /\ t[3] + t[4] + t[5] <= MaxLongSpans
              /\ t[3] + t[4] + t[5] >= DisplayCap - 1 } }

\* A collection of one long document, in either variant
InitLong ==
    /\ \E e \in LongEnts :
         \/ /\ variant = "notebook"
            /\ docs = << [ents |-> e, fails |-> FALSE] >>
            /\ pc = "nlp"
         \/ /\ variant = "files"
            /\ docs = << [File_name |-> "files/1.txt", ents |-> e, fails |-> FALSE] >>
            /\ pc = "accumulate"
    /\ Start

SpecLong == InitLong /\ [][Next]_vars

\* The cells with the explode cell run more than once
NextRerun == Next \/ ReExplode

SpecRerun == Init /\ [][NextRerun]_vars

(***************************************************************************)
(* Vocabulary of the properties.                                           *)
(***************************************************************************)
\* Key of the i-th document handed to the accumulation loop (1-based i)
DocKey(i) == IF variant = "notebook" THEN i - 1 ELSE docs[i].File_name

\* Key carried by a record of all_entities
RecordKey(r) == r[KeyColumn]

\* Key, category and text carried by a row of the flattened table
RowKey(row) == row.cells[KeyColumn].val

RowPair(row) == <<row.cells["Entity_type"], row.cells["Entity_identified"]>>

\* The (category, text) pair at position k of a record, as table cells
RecordPair(r, k) == <<Scalar(r.Entity_type[k]), Scalar(r.Entity_identified[k])>>

Flattened == pc = "query"

LoopDone == idx = Len(docs)

\* Positions of the rows of the flattened table that belong to key
RowsOf(key) == {k \in DOMAIN df_NER.rows : RowKey(df_NER.rows[k]) = key}

\* C1: the accumulation loop leaves one record per input document, in input
\* order: after k iterations all_entities holds k records, the i-th carrying
\* the key of the i-th document, and N records once the loop has ended.
C1_OneRecordPerDocument ==
    /\ Len(all_entities) = idx
    /\ \A i \in DOMAIN all_entities : RecordKey(all_entities[i]) = DocKey(i)
    /\ (LoopDone => Len(all_entities) = Len(docs))

C1_Witness ==
    /\ LoopDone
    /\ Len(docs) >= 2
    /\ Len(all_entities) = Len(docs)

\* C2: in every state every record has two sequences of equal length, and
\* position i of both holds the category and the text of the i-th span the
\* tagger emitted for that document; the pipeline never stops on a mismatch.
C2_ParallelSequencesAligned ==
    /\ \A i \in DOMAIN all_entities :
         LET r == all_entities[i]
         IN  /\ i \in DOMAIN docs
             /\ Len(r.Entity_type) = Len(r.Entity_identified)
             /\ Len(r.Entity_type) = Len(docs[i].ents)
             /\ \A k \in DOMAIN docs[i].ents :
                  /\ r.Entity_type[k] = docs[i].ents[k].label_
                  /\ r.Entity_identified[k] = docs[i].ents[k].text
    /\ raised # "ValueError"

C2_Witness ==
    \E i \in DOMAIN all_entities :
        /\ Len(all_entities[i].Entity_type) >= 2
        /\ all_entities[i].Entity_type[1] # all_entities[i].Entity_type[2]
        /\ Flattened

\* C3: a document with zero spans still gets its record: once the loop has
\* passed it, its key is in all_entities exactly once, with two empty lists.
C3_ZeroSpanDocumentKept ==
    \A i \in 1..idx :
        docs[i].ents = <<>> =>
            /\ Cardinality({j \in DOMAIN all_entities :
                              RecordKey(all_entities[j]) = DocKey(i)}) = 1
            /\ \A j \in DOMAIN all_entities :
                 RecordKey(all_entities[j]) = DocKey(i) =>
                     /\ all_entities[j].Entity_type = <<>>
                     /\ all_entities[j].Entity_identified = <<>>

C3_Witness ==
    /\ LoopDone
    /\ \E i, j \in DOMAIN docs : docs[i].ents = <<>> /\ docs[j].ents # <<>>
    /\ \E j \in DOMAIN all_entities : all_entities[j].Entity_type = <<>>

RECURSIVE SumLens(_)
SumLens(records) ==
    IF records = <<>> THEN 0
    ELSE Len(Head(records).Entity_type) + SumLens(Tail(records))

\* C4: cardinality law of the explode step: the flattened table has as many
\* rows as there are entity occurrences in all records together.
C4_CardinalityLaw ==
    Flattened => Len(df_NER.rows) = SumLens(all_entities)

\* C5: a document whose record has zero spans has no row in the flattened
\* table, while its record is still in the accumulated list.
C5_ZeroSpanDocumentHasNoRow ==
    Flattened =>
        \A i \in DOMAIN all_entities :
            all_entities[i].Entity_type = <<>> =>
                RowsOf(RecordKey(all_entities[i])) = {}

\* C6: after the explode step every (category, text) pair of a record is in
\* the table once per position it holds in the record, under the document's
\* key: a pair held k times has exactly k rows.
C6_EveryPairOnceARow ==
    Flattened =>
        \A i \in DOMAIN all_entities :
            LET r == all_entities[i]
            IN  \A sp \in SpanPool :
                  Cardinality({k \in RowsOf(RecordKey(r)) :
                                 RowPair(df_NER.rows[k])
                                   = <<Scalar(sp.label_), Scalar(sp.text)>>})
                    = Cardinality({k \in DOMAIN r.Entity_type :
                                     /\ r.Entity_type[k] = sp.label_
                                     /\ r.Entity_identified[k] = sp.text})

C6_Witness ==
    /\ Flattened
    /\ \E i \in DOMAIN all_entities :
         /\ Len(all_entities[i].Entity_type) >= 2
         /\ all_entities[i].Entity_type[1] = all_entities[i].Entity_type[2]
         /\ all_entities[i].Entity_identified[1] = all_entities[i].Entity_identified[2]

\* C7: within one document the rows are in emission order and aligned: the
\* j-th row of a document with spans pairs Entity_type[j] with
\* Entity_identified[j] of its record.
C7_RowsInEmissionOrder ==
    Flattened =>
        \A i \in DOMAIN all_entities :
            LET r == all_entities[i]
                S == RowsOf(RecordKey(r))
            IN  r.Entity_type # <<>> =>
                  /\ Cardinality(S) = Len(r.Entity_type)
                  /\ \A j \in DOMAIN r.Entity_type :
                       RowPair(df_NER.rows[Nth(S, j)]) = RecordPair(r, j)

C7_Witness ==
    /\ Flattened
    /\ Len(all_entities) >= 2
    /\ \E i \in DOMAIN all_entities :
         /\ Len(all_entities[i].Entity_type) >= 2
         /\ all_entities[i].Entity_identified[1] # all_entities[i].Entity_identified[2]

\* Keys of the table's runs of consecutive rows with one key
RECURSIVE GroupKeys(_)
GroupKeys(rows) ==
    IF rows = <<>> THEN <<>>
    ELSE IF Len(rows) >= 2 /\ RowKey(rows[1]) = RowKey(rows[2])
         THEN GroupKeys(Tail(rows))
         ELSE <<RowKey(rows[1])>> \o GroupKeys(Tail(rows))

\* Keys of the documents that have rows, in the order they were supplied
SuppliedKeys ==
    LET present == {i \in DOMAIN docs : RowsOf(DocKey(i)) # {}}
    IN  [n \in 1..Cardinality(present) |-> DocKey(Nth(present, n))]

\* C8 as claimed: the rows are grouped by document and the groups come in
\* the order in which the documents were supplied to the accumulation loop.
C8_GroupsInSuppliedOrder ==
    Flattened => GroupKeys(df_NER.rows) = SuppliedKeys

\* C8 as amended: the rows are grouped by document (one run of rows per key)
\* and the groups come in ascending order of the key column; in the notebook
\* variant, where the key is the enumerate index, that is the supplied order.
C8_GroupsInKeyOrder ==
    Flattened =>
        LET g == GroupKeys(df_NER.rows)
        IN  /\ \A m, n \in DOMAIN g : m < n => ValueLess(KeyColumn, g[m], g[n])
            /\ (variant = "notebook" => g = SuppliedKeys)

C8_Witness ==
    /\ Flattened
    /\ variant = "files"
    /\ Len(docs) = 2
    /\ docs[1].File_name = "files/2.txt"
    /\ GroupKeys(df_NER.rows) = <<"files/10.txt", "files/2.txt">>

\* C9: the filter returns exactly the rows whose category equals the target,
\* unaltered and in their original relative order.
C9_FilterIsMatchingSubsequence ==
    (Flattened /\ target # "") =>
        LET S == {k \in DOMAIN df_NER.rows :
                    df_NER.rows[k].cells["Entity_type"] = Scalar(target)}
        IN  /\ Len(filtered.rows) = Cardinality(S)
            /\ \A n \in DOMAIN filtered.rows : filtered.rows[n] = df_NER.rows[Nth(S, n)]
            /\ filtered.columns = df_NER.columns

C9_Witness ==
    /\ Flattened
    /\ target = "GPE"
    /\ Len(filtered.rows) >= 2
    /\ Len(filtered.rows) < Len(df_NER.rows)
    /\ filtered.rows[1].index # Scalar(0)

C11_ExactStringMatch ==
    (Flattened /\ target # "") =>
        \A k \in DOMAIN df_NER.rows :
            LET cell == df_NER.rows[k].cells["Entity_type"]
            IN  (IsScalar(cell) /\ cell.val # target
                   /\ Normalized(cell.val) = Normalized(target)) =>
                \A n \in DOMAIN filtered.rows : filtered.rows[n] # df_NER.rows[k]

C11_Witness ==
    /\ Flattened
    /\ target \in {"gpe", " GPE"}
    /\ \E k \in DOMAIN df_NER.rows : df_NER.rows[k].cells["Entity_type"] = Scalar("GPE")
    /\ filtered.rows = <<>>

\* C13: running the explode cell on the table it has already flattened
\* returns the same rows in the same order.
C13_ReExplodeChangesNothing ==
    [][(pc = "query" /\ explode_runs' = explode_runs + 1) => df_NER' = df_NER]_vars

C13_Witness ==
    /\ pc = "query"
    /\ explode_runs >= 2
    /\ \E k \in DOMAIN df_NER.rows : IsNaN(df_NER.rows[k].cells["Entity_type"])
    /\ \E k, m \in DOMAIN df_NER.rows :
         /\ k < m
         /\ RowKey(df_NER.rows[k]) = RowKey(df_NER.rows[m])
         /\ RowPair(df_NER.rows[k]) # RowPair(df_NER.rows[m])

\* C12: the [:15] slice after the filter returns the first min(15, m) of the
\* m matching rows, in their original relative order, and no other row.
C12_CapKeepsFirstMatches ==
    (Flattened /\ target # "") =>
        LET S == {k \in DOMAIN df_NER.rows :
                    df_NER.rows[k].cells["Entity_type"] = Scalar(target)}
            m == Cardinality(S)
        IN  /\ Len(displayed.rows) = IF m < DisplayCap THEN m ELSE DisplayCap
            /\ \A n \in DOMAIN displayed.rows :
                 displayed.rows[n] = df_NER.rows[Nth(S, n)]

C12_Witness ==
    /\ Flattened
    /\ target # ""
    /\ Len(filtered.rows) > DisplayCap
    /\ Len(displayed.rows) = DisplayCap
    /\ \E k \in 1..DisplayCap :
         df_NER.rows[k].cells["Entity_type"] # Scalar(target)

\* Scenario A: two documents, the tagger gives (Apple, ORG), (Jane, PERSON),
\* (Paris, GPE) for the first and nothing for the second
ScenarioA ==
    /\ Len(docs) = 2
    /\ docs[1].ents = << [text |-> "Apple", label_ |-> "ORG"],
                         [text |-> "Jane", label_ |-> "PERSON"],
                         [text |-> "Paris", label_ |-> "GPE"] >>
    /\ docs[2].ents = <<>>
    /\ ~docs[1].fails /\ ~docs[2].fails

\* A row as (key, category, text)
RowTriple(row) ==
    <<RowKey(row), row.cells["Entity_type"], row.cells["Entity_identified"]>>

\* C14: in scenario A the accumulated list is the record of doc1 with its
\* three aligned pairs followed by the record of doc2 with two empty lists,
\* and the flattened table is exactly the three rows of doc1, doc2 absent.
C14_ScenarioATable ==
    (ScenarioA /\ Flattened) =>
        /\ Len(all_entities) = 2
        /\ RecordKey(all_entities[1]) = DocKey(1)
        /\ all_entities[1].Entity_type = <<"ORG", "PERSON", "GPE">>
        /\ all_entities[1].Entity_identified = <<"Apple", "Jane", "Paris">>
        /\ RecordKey(all_entities[2]) = DocKey(2)
        /\ all_entities[2].Entity_type = <<>>
        /\ all_entities[2].Entity_identified = <<>>
        /\ [k \in DOMAIN df_NER.rows |-> RowTriple(df_NER.rows[k])]
             = << <<DocKey(1), Scalar("ORG"), Scalar("Apple")>>,
                  <<DocKey(1), Scalar("PERSON"), Scalar("Jane")>>,
                  <<DocKey(1), Scalar("GPE"), Scalar("Paris")>> >>

\* C15: nothing is deduplicated, sorted or filtered: a pair the tagger
\* emits k times for a document is in the document's record at exactly the
\* emitted positions, and has k rows in the flattened table.
C15_RepeatsKept ==
    \A i \in DOMAIN all_entities :
        \A sp \in SpanPool :
            LET r == all_entities[i]
                emitted == {k \in DOMAIN docs[i].ents : docs[i].ents[k] = sp}
            IN  /\ {k \in DOMAIN r.Entity_type : r.Entity_type[k] = sp.label_} = emitted
                /\ {k \in DOMAIN r.Entity_identified :
                       r.Entity_identified[k] = sp.text} = emitted
                /\ Flattened =>
                     Cardinality({k \in DOMAIN df_NER.rows :
                                    RowTriple(df_NER.rows[k])
                                      = <<DocKey(i), Scalar(sp.label_), Scalar(sp.text)>>})
                       = Cardinality(emitted)

C15_Witness ==
    /\ Flattened
    /\ \E i \in DOMAIN docs :
         /\ Len(docs[i].ents) = 3
         /\ docs[i].ents[1] = docs[i].ents[3]
         /\ docs[i].ents[1] # docs[i].ents[2]

\* The run has stopped on an exception
Failed == pc = "error"

\* The failure state names a document key: the file loop stops with
\* filepath bound to the path it was on; apply(nlp) binds no name to a row
FailureNames(key) == variant = "files" /\ filepath = key

\* The accumulated list holds a record with empty sequences for a key
HasSentinel(key) ==
    \E j \in DOMAIN all_entities :
        /\ RecordKey(all_entities[j]) = key
        /\ all_entities[j].Entity_type = <<>>
        /\ all_entities[j].Entity_identified = <<>>

\* The document the reader or tagger raised on: the first one it fails for
RaisedOn(i) ==
    /\ i \in DOMAIN docs
    /\ docs[i].fails
    /\ \A m \in 1..(i - 1) : ~docs[m].fails
    /\ raised = "Exception"

\* C16: a document whose reading or tagging fails is never silently dropped:
\* the run ends in a failure state that names its key, or the accumulated
\* list has a sentinel record for it; no table is derived without its record.
C16_FailureNeverSilent ==
    /\ \A i \in DOMAIN docs :
         RaisedOn(i) => (Failed /\ FailureNames(DocKey(i))) \/ HasSentinel(DocKey(i))
    /\ Flattened =>
         \A i \in DOMAIN docs :
             \E j \in DOMAIN all_entities : RecordKey(all_entities[j]) = DocKey(i)

\* Place of a path in the sorted table of the recorded run, which lists
\* files/1.txt, files/10.txt, ... before files/2.txt
ListedRank(path) ==
    CASE path = "files/1.txt" -> 1
      [] path = "files/10.txt" -> 2
      [] path = "files/2.txt" -> 3

\* C17: in the file variant the per-document table is in ascending order of
\* file name after sort_values, and the flattened table lists the documents
\* in that order.
C17_FileNameOrder ==
    variant = "files" =>
        /\ pc = "explode" =>
             /\ Len(df_NER.rows) = Len(all_entities)
             /\ \A m, n \in DOMAIN df_NER.rows :
                  m < n => ListedRank(RowKey(df_NER.rows[m]))
                             < ListedRank(RowKey(df_NER.rows[n]))
        /\ Flattened =>
             \A m, n \in DOMAIN df_NER.rows :
                 m < n => ListedRank(RowKey(df_NER.rows[m]))
                            <= ListedRank(RowKey(df_NER.rows[n]))

C17_Witness ==
    /\ variant = "files"
    /\ Flattened
    /\ Len(docs) = 3
    /\ docs[1].File_name = "files/2.txt"
    /\ docs[2].File_name = "files/10.txt"
    /\ RowKey(df_NER.rows[1]) = "files/1.txt"
    /\ RowKey(df_NER.rows[Len(df_NER.rows)]) = "files/2.txt"

\* The named-entity labels of the English spaCy models
Vocabulary ==
    {"PERSON", "NORP", "FAC", "ORG", "GPE", "LOC", "PRODUCT", "EVENT",
     "WORK_OF_ART", "LAW", "LANGUAGE", "DATE", "TIME", "PERCENT", "MONEY",
     "QUANTITY", "ORDINAL", "CARDINAL"}

\* The tagger of the model emits labels of the vocabulary only
TaggerInVocabulary ==
    \A i \in DOMAIN docs : \A j \in DOMAIN docs[i].ents :
        docs[i].ents[j].label_ \in Vocabulary

\* C18: every row of the flattened table has a category of the vocabulary
\* and an entity text that is not missing; no row with a NaN category or
\* text is reachable.
C18_NoMissingCells ==
    (Flattened /\ TaggerInVocabulary) =>
        \A n \in DOMAIN df_NER.rows :
            /\ IsScalar(df_NER.rows[n].cells.Entity_type)
            /\ df_NER.rows[n].cells.Entity_type.val \in Vocabulary
            /\ IsScalar(df_NER.rows[n].cells.Entity_identified)

\* Rows document i contributes when the documents are taken by enumerate
\* position and each document's spans in emission order
DocTriples(i) ==
    IF docs[i].ents = <<>>
    THEN << <<i - 1, NaN, NaN>> >>
    ELSE [j \in DOMAIN docs[i].ents |->
            <<i - 1, Scalar(docs[i].ents[j].label_),
              Scalar(docs[i].ents[j].text)>>]

RECURSIVE InputOrderTriples(_)
InputOrderTriples(n) ==
    IF n = 0 THEN <<>> ELSE InputOrderTriples(n - 1) \o DocTriples(n)

\* C19: in the notebook variant sort_values(by='Doc_index') leaves the
\* records in accumulation order, and the explode step lists the rows by
\* input position and then emission position, never by category or text.
C19_NotebookOrderIsInputOrder ==
    variant = "notebook" =>
        /\ pc = "explode" =>
             /\ Len(df_NER.rows) = Len(all_entities)
             /\ \A i \in DOMAIN df_NER.rows :
                  /\ df_NER.rows[i].index = Scalar(i - 1)
                  /\ df_NER.rows[i].cells["Doc_index"] = Scalar(i - 1)
                  /\ df_NER.rows[i].cells["Entity_type"]
                       = List(all_entities[i].Entity_type)
                  /\ df_NER.rows[i].cells["Entity_identified"]
                       = List(all_entities[i].Entity_identified)
        /\ Flattened =>
             [k \in DOMAIN df_NER.rows |->
                <<df_NER.rows[k].cells["Doc_index"].val,
                  df_NER.rows[k].cells["Entity_type"],
                  df_NER.rows[k].cells["Entity_identified"]>>]
               = InputOrderTriples(Len(docs))

C19_Witness ==
    /\ variant = "notebook"
    /\ Flattened
    /\ Len(docs) = 2
    /\ Len(docs[1].ents) = 2
    /\ docs[1].ents[1].label_ = "PERSON"
    /\ docs[1].ents[2].label_ = "GPE"
    /\ Len(docs[2].ents) = 1
    /\ docs[2].ents[1].label_ = "ORG"
    /\ Len(df_NER.rows) = 3
    /\ df_NER.rows[1].cells["Entity_type"] = Scalar("PERSON")
    /\ df_NER.rows[3].cells["Entity_type"] = Scalar("ORG")

\* Orders in which glob may list n files
Relistings(n) == {p \in [1..n -> 1..n] : Injective(p)}

\* The same files as docs, listed in the order p
Relisted(p) == [i \in DOMAIN docs |-> docs[p[i]]]

\* all_entities after the file loop has run over the listing d
RECURSIVE AccumulatedFiles(_)
AccumulatedFiles(d) ==
    IF d = <<>> THEN <<>>
    ELSE append(AccumulatedFiles(SubSeq(d, 1, Len(d) - 1)),
                ent_dict_file(d[Len(d)]))

\* df_NER after the DataFrame cell and the explode cell of the file variant
\* have run over the listing d
FlattenedFiles(d) ==
    LET indexed == set_index(sort_values(DataFrame(AccumulatedFiles(d),
                                                   "File_name"),
                                         "File_name"),
                             "File_name")
    IN  IF ExplodeAligned(indexed)
        THEN reset_index(apply_explode(indexed))
        ELSE indexed

\* C20 as stated: a run of the file variant over two or more files has a
\* relisting of the same files that yields a different flattened table.
C20_TableDependsOnListing ==
    (variant = "files" /\ Flattened /\ Len(docs) >= 2) =>
        \E p \in Relistings(Len(docs)) : FlattenedFiles(Relisted(p)) # df_NER

\* C20, amended: the flattened table of the file variant is the same for
\* every order in which the directory listing returns the same files,
\* because sort_values(by='File_name') orders the records by file name.
C20_TableIndependentOfListing ==
    (variant = "files" /\ Flattened) =>
        \A p \in Relistings(Len(docs)) : FlattenedFiles(Relisted(p)) = df_NER

C20_Witness ==
    /\ variant = "files"
    /\ Flattened
    /\ Len(docs) = 3
    /\ docs[1].File_name = "files/10.txt"
    /\ docs[2].File_name = "files/2.txt"
    /\ docs[3].File_name = "files/1.txt"
    /\ docs[1].ents # docs[3].ents
    /\ RowKey(df_NER.rows[1]) = "files/1.txt"

\* The cells up to the explode cell, without the query cells
NextBuild ==
    \/ ApplyNlp
    \/ AccumulateNotebook
    \/ AccumulateFiles
    \/ BuildFrame
    \/ Explode

SpecBuild == Init /\ [][NextBuild]_vars

\* The records of all_entities appended in the order p
Resequenced(p) == [i \in DOMAIN all_entities |-> all_entities[p[i]]]

\* df_NER after the DataFrame cell and the explode cell of the notebook
\* have run over the list of records recs
FlattenedNotebook(recs) ==
    LET indexed == set_index(sort_values(DataFrame(recs, "Doc_index"),
                                         "Doc_index"),
                             "Doc_index")
    IN  IF ExplodeAligned(indexed)
        THEN reset_index(apply_explode(indexed))
        ELSE indexed

\* C21: whatever the order in which the per-document records were appended
\* to all_entities, sorting by Doc_index and exploding yields the flattened
\* table of the sequential in-order run.
C21_ResequencedSameTable ==
    (variant = "notebook" /\ Flattened) =>
        \A p \in Relistings(Len(all_entities)) :
            FlattenedNotebook(Resequenced(p)) = df_NER

C21_Witness ==
    /\ variant = "notebook"
    /\ Flattened
    /\ Len(all_entities) = 3
    /\ all_entities[1].Entity_type # all_entities[3].Entity_type
    /\ all_entities[2].Entity_type = <<>>
    /\ Len(df_NER.rows) = 3

(***************************************************************************)
(* The list objects behind the names.  heap holds the Python list objects, *)
(* the address of one being its position; a name or a dictionary value is  *)
(* an address, 0 for a name not bound yet.                                 *)
(***************************************************************************)
\* Variant of new_list that refills the object the name is bound to
new_list_refilled(h, old_ref, xs) ==
    IF old_ref = 0
    THEN [heap |-> Append(h, xs), ref |-> Len(h) + 1]
    ELSE [heap |-> [h EXCEPT ![old_ref] = xs], ref |-> old_ref]

\* name = [...]: the display or comprehension makes a new list object and
\* the name is bound to it, whatever it was bound to before
new_list(h, old_ref, xs) == [heap |-> Append(h, xs), ref |-> Len(h) + 1]

\* Variant of list_append that binds the name to a longer copy
list_append_copied(h, ref, x) ==
    [heap |-> Append(h, Append(h[ref], x)), ref |-> Len(h) + 1]

\* name.append(x): the object grows in place
list_append(h, ref, x) == [heap |-> [h EXCEPT ![ref] = Append(@, x)], ref |-> ref]

\* for ent in doc.ents: name.append(...)
RECURSIVE append_each(_, _, _)
append_each(h, ref, xs) ==
    IF xs = <<>> THEN [heap |-> h, ref |-> ref]
    ELSE LET r == list_append(h, ref, Head(xs))
         IN  append_each(r.heap, r.ref, Tail(xs))

\* What print shows of a dictionary whose lists live in h
Shown(h, d) ==
    [k \in DOMAIN d |->
       IF k \in {"Entity_type", "Entity_identified"} THEN h[d[k]] ELSE d[k]]

\* Collections on which no step raises
NoFailure == \A i \in DOMAIN docs : ~docs[i].fails

\* One iteration of the notebook's accumulation loop on the list objects
AccumulateNotebookHeap ==
    /\ pc = "loop"
    /\ variant = "notebook"
    /\ idx < Len(docs)
    /\ LET t == new_list(heap, entity_type_ref, entity_type(docs[idx + 1]))
           e == new_list(t.heap, entity_identified_ref,
                         entity_identified(docs[idx + 1]))
       IN  /\ heap' = e.heap
           /\ entity_type_ref' = t.ref
           /\ entity_identified_ref' = e.ref
           /\ all_entities_refs' =
                 append(all_entities_refs,
                        [Doc_index |-> idx,
                         Entity_type |-> t.ref,
                         Entity_identified |-> e.ref])
    /\ idx' = idx + 1
    /\ UNCHANGED <<variant, docs, pc, filepath, all_entities, df_NER,
                   explode_runs, target, filtered, displayed, raised,
                   nlp_calls, run_count, entities, printed, id, files,
                   df_articles>>

\* One iteration of the file loop on the list objects
AccumulateFilesHeap ==
    /\ pc = "loop"
    /\ variant = "files"
    /\ idx < Len(docs)
    /\ filepath' = docs[idx + 1].File_name
    /\ LET t0 == new_list(heap, entity_type_ref, <<>>)
           t == append_each(t0.heap, t0.ref, entity_type(docs[idx + 1]))
           e0 == new_list(t.heap, entity_identified_ref, <<>>)
           e == append_each(e0.heap, e0.ref, entity_identified(docs[idx + 1]))
       IN  /\ heap' = e.heap
           /\ entity_type_ref' = t.ref
           /\ entity_identified_ref' = e.ref
           /\ all_entities_refs' =
                 append(all_entities_refs,
                        [File_name |-> docs[idx + 1].File_name,
                         Entity_type |-> t.ref,
                         Entity_identified |-> e.ref])
    /\ idx' = idx + 1
    /\ UNCHANGED <<variant, docs, pc, all_entities, df_NER,
                   explode_runs, target, filtered, displayed, raised,
                   nlp_calls, run_count, entities, printed, id, files,
                   df_articles>>

\* The document of the single-document cells: one row of the processed
\* column in the notebook, files/1.txt in the export
SingleDoc == docs[1]

\* entities=[]; entity_type = []; entity_identified = []
SingleSetup ==
    /\ pc = "single"
    /\ LET t == new_list(heap, entity_type_ref, <<>>)
           e == new_list(t.heap, entity_identified_ref, <<>>)
       IN  /\ heap' = e.heap
           /\ entity_type_ref' = t.ref
           /\ entity_identified_ref' = e.ref
    /\ entities' = <<>>
    /\ pc' = "single_loop"
    /\ UNCHANGED <<variant, docs, idx, filepath, all_entities, df_NER,
                   explode_runs, target, filtered, displayed, raised,
                   nlp_calls, run_count, all_entities_refs, printed, id,
                   files, df_articles>>

\* One iteration of: for named_entity in doc.ents, in the single-document
\* cell: both lists grow, and a dictionary of the two names is appended
SingleStep ==
    /\ pc = "single_loop"
    /\ idx < Len(SingleDoc.ents)
    /\ LET named_entity == SingleDoc.ents[idx + 1]
           t == list_append(heap, entity_type_ref, named_entity.label_)
           e == list_append(t.heap, entity_identified_ref, named_entity.text)
       IN  /\ heap' = e.heap
           /\ entity_type_ref' = t.ref
           /\ entity_identified_ref' = e.ref
           /\ entities' = append(entities,
                                 [Entity_type |-> t.ref,
                                  Entity_identified |-> e.ref])
    /\ idx' = idx + 1
    /\ UNCHANGED <<variant, docs, pc, filepath, all_entities, df_NER,
                   explode_runs, target, filtered, displayed, raised,
                   nlp_calls, run_count, all_entities_refs, printed, id,
                   files, df_articles>>

InitHeap ==
    /\ \/ variant = "notebook" /\ docs \in ProcessedDocChoices
       \/ variant = "files" /\ docs \in ArticlesChoices
    /\ NoFailure
    /\ \/ pc = "loop"
       \/ pc = "single" /\ Len(docs) >= 1
    /\ Start

NextHeap ==
    \/ AccumulateNotebookHeap
    \/ AccumulateFilesHeap
    \/ SingleSetup
    \/ SingleStep

SpecHeap == InitHeap /\ [][NextHeap]_vars

\* C22: an iteration of the accumulation loop binds entity_type and
\* entity_identified to new list objects, so appending the record of a
\* document leaves what every record already in all_entities shows as it
\* was.
C22_EarlierRecordsUntouched ==
    [][\A i \in DOMAIN all_entities_refs :
          Shown(heap', all_entities_refs'[i]) = Shown(heap, all_entities_refs[i])]_vars

C22_Witness ==
    /\ pc = "loop"
    /\ Len(all_entities_refs) = 2
    /\ heap[all_entities_refs[1].Entity_type] # <<>>
    /\ heap[all_entities_refs[2].Entity_type] # <<>>
    /\ heap[all_entities_refs[1].Entity_type]
         # heap[all_entities_refs[2].Entity_type]

MaxRuns == 2

\* Variant of rebind that extends the list the name was bound to
rebind_extended(old, new) == old \o new

\* name = value: the name drops what it was bound to
rebind(old, new) == new

\* The cells are run again from the top over the same documents.  Every
\* name keeps what the previous run left in it until a cell assigns it; the
\* accumulation cell starts with all_entities = [] and a new enumerate.
RunAgain ==
    /\ pc = "query"
    /\ run_count < MaxRuns
    /\ run_count' = run_count + 1
    /\ pc' = IF variant = "notebook" THEN "nlp" ELSE "accumulate"
    /\ all_entities' = rebind(all_entities, <<>>)
    /\ idx' = 0
    /\ nlp_calls' = <<>>
    /\ UNCHANGED <<variant, docs, filepath, df_NER, explode_runs, target,
                   filtered, displayed, raised, cellvars>>

InitAgain == Init /\ NoFailure

NextAgain ==
    \/ ApplyNlp
    \/ AccumulateNotebook
    \/ AccumulateFiles
    \/ BuildFrame
    \/ Explode
    \/ Query("GPE")
    \/ RunAgain

SpecAgain == InitAgain /\ [][NextAgain]_vars

\* all_entities of a run over docs, from the documents alone
AccumulatedOf(d) ==
    IF variant = "notebook"
    THEN [i \in DOMAIN d |-> ent_dict(i - 1, d[i])]
    ELSE AccumulatedFiles(d)

\* The flattened table of a run over docs, from the documents alone
FlattenedOf(d) ==
    IF variant = "notebook"
    THEN FlattenedNotebook(AccumulatedOf(d))
    ELSE FlattenedFiles(d)

\* C24: in every run over the same ordered documents the accumulated list,
\* the flattened table and the filter result are the ones the documents
\* alone determine, whatever an earlier run left in the names.
C24_RunsAgree ==
    /\ (pc \in {"explode", "query"}) => all_entities = AccumulatedOf(docs)
    /\ Flattened => df_NER = FlattenedOf(docs)
    /\ (Flattened /\ target # "") =>
           /\ filtered = filter(FlattenedOf(docs), "Entity_type", target)
           /\ displayed = head(filtered, DisplayCap)

C24_Witness ==
    /\ run_count = 2
    /\ Flattened
    /\ Len(docs) = 2
    /\ target = "GPE"
    /\ Len(filtered.rows) = 2

\* Records of all_entities that carry the key
RecordsOf(key) ==
    {i \in DOMAIN all_entities : RecordKey(all_entities[i]) = key}

\* C25: the keys of all_entities are pairwise distinct (in the notebook
\* they are 0..N-1, in the file variant the paths of one listing), and the
\* key of every row of the flattened table is the key of exactly one
\* accumulated record.
C25_KeysUnique ==
    /\ \A i, j \in DOMAIN all_entities :
          i # j => RecordKey(all_entities[i]) # RecordKey(all_entities[j])
    /\ variant = "notebook" =>
          {RecordKey(all_entities[i]) : i \in DOMAIN all_entities}
            = 0..(Len(all_entities) - 1)
    /\ variant = "files" =>
          \A i \in DOMAIN all_entities :
              RecordKey(all_entities[i]) = docs[i].File_name
    /\ Flattened =>
          \A n \in DOMAIN df_NER.rows :
              Cardinality(RecordsOf(RowKey(df_NER.rows[n]))) = 1

C25_Witness ==
    /\ variant = "notebook"
    /\ Flattened
    /\ Len(all_entities) = 3
    /\ Len(df_NER.rows) = 4
    /\ RowKey(df_NER.rows[1]) = RowKey(df_NER.rows[2])

\* The rows of the flattened table of docs whose category is label
MatchingRows(label) ==
    SelectSeq(FlattenedOf(docs).rows,
              LAMBDA r : r.cells["Entity_type"] = Scalar(label))

\* C26: a filter-and-cap query leaves df_NER as it was, so after any
\* sequence of queries the result shown for a label is the one the
\* flattened table of the documents gives, whatever was queried before.
C26_QueriesLeaveTable ==
    /\ [][pc = "query" => df_NER' = df_NER]_vars
    /\ []((Flattened /\ target # "") =>
             LET matching == MatchingRows(target)
             IN  displayed.rows =
                   SubSeq(matching, 1, Min(DisplayCap, Len(matching))))

C26_Witness ==
    /\ Flattened
    /\ target = "MONEY"
    /\ displayed.rows = <<>>
    /\ Len(df_NER.rows) = 3
    /\ \E n \in DOMAIN df_NER.rows :
          df_NER.rows[n].cells["Entity_type"] = Scalar("GPE")

\* C27: in the single-document cell every dictionary of entities holds the
\* same two list objects, so after k iterations entities has k elements
\* and each of them shows all k categories and texts met so far; at the
\* end of the loop that is all n of them, and entities is empty for n = 0.
C27_SingleCellSharesLists ==
    pc = "single_loop" =>
        /\ Len(entities) = idx
        /\ \A i \in DOMAIN entities :
              /\ entities[i].Entity_type = entity_type_ref
              /\ entities[i].Entity_identified = entity_identified_ref
              /\ Shown(heap, entities[i]) =
                    [Entity_type |->
                       [j \in 1..idx |-> SingleDoc.ents[j].label_],
                     Entity_identified |->
                       [j \in 1..idx |-> SingleDoc.ents[j].text]]
        /\ (Len(SingleDoc.ents) = 0) => entities = <<>>

C27_Witness ==
    /\ pc = "single_loop"
    /\ Len(SingleDoc.ents) = 3
    /\ idx = 3
    /\ Len(entities) = 3
    /\ Len(heap[entities[1].Entity_type]) = 3
    /\ SingleDoc.ents[1].label_ # SingleDoc.ents[3].label_

(***************************************************************************)
(* The per-label loops over the single document.                           *)
(***************************************************************************)
\* Labels the cells loop for
LoopLabels == {"PERSON", "NORP", "GPE", "LOC", "FAC", "ORG"}

\* Variant of label_equals with the test negated
label_differs(a, b) == a # b

\* named_entity.label_ == "...": str equality
label_equals(a, b) == a = b

\* The cell of one label is started: nothing printed yet
LabelLoopStart(label) ==
    /\ pc \in {"labels", "label_loop"}
    /\ pc = "label_loop" => idx = Len(SingleDoc.ents)
    /\ target' = label
    /\ printed' = <<>>
    /\ idx' = 0
    /\ pc' = "label_loop"
    /\ UNCHANGED <<variant, docs, filepath, all_entities, df_NER,
                   explode_runs, filtered, displayed, raised, nlp_calls,
                   run_count, heap, entities, entity_type_ref,
                   entity_identified_ref, all_entities_refs, id, files,
                   df_articles>>

\* One iteration of: for named_entity in doc.ents:
\*                       if named_entity.label_ == label: print(named_entity)
LabelLoopStep ==
    /\ pc = "label_loop"
    /\ idx < Len(SingleDoc.ents)
    /\ LET named_entity == SingleDoc.ents[idx + 1]
       IN  printed' = IF label_equals(named_entity.label_, target)
                      THEN Append(printed, named_entity)
                      ELSE printed
    /\ idx' = idx + 1
    /\ UNCHANGED <<variant, docs, pc, filepath, all_entities, df_NER,
                   explode_runs, target, filtered, displayed, raised,
                   nlp_calls, run_count, heap, entities, entity_type_ref,
                   entity_identified_ref, all_entities_refs, id, files,
                   df_articles>>

InitLabels ==
    /\ \/ variant = "notebook" /\ docs \in ProcessedDocChoices
       \/ variant = "files" /\ docs \in ArticlesChoices
    /\ NoFailure
    /\ Len(docs) = 1
    /\ pc = "labels"
    /\ Start

NextLabels ==
    \/ \E label \in LoopLabels : LabelLoopStart(label)
    \/ LabelLoopStep

SpecLabels == InitLabels /\ [][NextLabels]_vars

\* C28: the loop for a label prints exactly the spans of doc.ents that
\* carry the label, in document order and with repeats, and prints nothing
\* when no span carries it.
C28_LabelLoopPrintsMatches ==
    pc = "label_loop" =>
        /\ printed = SelectSeq(SubSeq(SingleDoc.ents, 1, idx),
                               LAMBDA sp : sp.label_ = target)
        /\ (\A j \in 1..idx : SingleDoc.ents[j].label_ # target)
              => printed = <<>>

C28_Witness ==
    /\ pc = "label_loop"
    /\ Len(SingleDoc.ents) = 3
    /\ idx = 3
    /\ target = "PERSON"
    /\ Len(printed) = 2
    /\ printed[1] = printed[2]
    /\ SingleDoc.ents[2].label_ = "GPE"

\* The file loop was left by an exception
FileLoopFailed == variant = "files" /\ pc = "error" /\ raised = "Exception"

\* C29: when opening, reading or tagging document k raises in the file
\* loop, the loop stops there: all_entities holds the records of the
\* documents before k in listing order and no other, and no table is
\* built or flattened in that run.
C29_FailureStopsFileLoop ==
    /\ [](FileLoopFailed =>
            /\ idx < Len(docs)
            /\ docs[idx + 1].fails
            /\ filepath = docs[idx + 1].File_name
            /\ \A i \in 1..idx : ~docs[i].fails
            /\ Len(all_entities) = idx
            /\ \A i \in 1..idx :
                  /\ all_entities[i].File_name = docs[i].File_name
                  /\ all_entities[i].Entity_type
                       = [j \in DOMAIN docs[i].ents |-> docs[i].ents[j].label_]
                  /\ all_entities[i].Entity_identified
                       = [j \in DOMAIN docs[i].ents |-> docs[i].ents[j].text]
            /\ df_NER = EmptyFrame
            /\ explode_runs = 0
            /\ filtered = EmptyFrame)
    /\ [][~FileLoopFailed]_vars

C29_Witness ==
    /\ FileLoopFailed
    /\ Len(docs) = 3
    /\ docs[2].fails
    /\ Len(all_entities) = 1
    /\ Len(all_entities[1].Entity_type) = 2
    /\ df_NER = EmptyFrame

(***************************************************************************)
(* The loop of the export that writes the scraped articles to files.       *)
(***************************************************************************)
\* Most articles in df_articles
MaxArticles == 3

\* Scraped html strings
ScrapedPool ==
    {"<p>Apple</p>", "Apple", "<b>Paris</b><i>Jane</i>", ""}

\* BeautifulSoup(text).get_text(): the text with the tags taken out
get_text(text) ==
    CASE text = "<p>Apple</p>" -> "Apple"
      [] text = "Apple" -> "Apple"
      [] text = "<b>Paris</b><i>Jane</i>" -> "ParisJane"
      [] text = "" -> ""

\* str(n) for the ids the loop reaches
DecimalString(n) ==
    CASE n = 0 -> "0" [] n = 1 -> "1" [] n = 2 -> "2" [] n = 3 -> "3"
      [] n = 4 -> "4" [] n = 5 -> "5" [] n = 6 -> "6" [] n = 7 -> "7"
      [] n = 8 -> "8" [] n = 9 -> "9" [] n = 10 -> "10" [] n = 11 -> "11"

\* Variant of FilePath that ignores the id
FilePath_fixed(n) == "files/" \o DecimalString(1) \o ".txt"

\* f"files/{id}.txt"
FilePath(n) == "files/" \o DecimalString(n) \o ".txt"

\* open(path, "w") and file.write(content): the file is created, or
\* emptied if it exists, and then holds content
write_file(fs, path, content) ==
    [p \in DOMAIN fs \cup {path} |-> IF p = path THEN content ELSE fs[p]]

\* One iteration of: for text in df_articles['scraped_text']
WriteStep ==
    /\ pc = "write"
    /\ idx < Len(df_articles)
    /\ LET text == df_articles[idx + 1]
           article == get_text(text)
       IN  /\ id' = id + 1
           /\ files' = write_file(files, FilePath(id'), article)
    /\ idx' = idx + 1
    /\ UNCHANGED <<variant, docs, pc, filepath, all_entities, df_NER,
                   explode_runs, target, filtered, displayed, raised,
                   nlp_calls, run_count, heap, entities, entity_type_ref,
                   entity_identified_ref, all_entities_refs, printed,
                   df_articles>>

\* The folder "files" exists and is empty, or holds files/1.txt of an
\* earlier run; id = 0
InitWrite ==
    /\ variant = "files"
    /\ docs = <<>>
    /\ pc = "write"
    /\ idx = 0
    /\ filepath = ""
    /\ all_entities = <<>>
    /\ df_NER = EmptyFrame
    /\ explode_runs = 0
    /\ target = ""
    /\ filtered = EmptyFrame
    /\ displayed = EmptyFrame
    /\ raised = ""
    /\ nlp_calls = <<>>
    /\ run_count = 1
    /\ heap = <<>>
    /\ entities = <<>>
    /\ entity_type_ref = 0
    /\ entity_identified_ref = 0
    /\ all_entities_refs = <<>>
    /\ printed = <<>>
    /\ id = 0
    /\ files \in {<<>>, write_file(<<>>, "files/1.txt", "stale")}
    /\ df_articles \in SeqsUpTo(ScrapedPool, MaxArticles)

NextWrite == WriteStep

SpecWrite == InitWrite /\ [][NextWrite]_vars

\* The paths files/1.txt, files/2.txt, ... in the order of their numbers
NumberedPaths ==
    <<"files/1.txt", "files/2.txt", "files/3.txt", "files/4.txt",
      "files/5.txt", "files/6.txt">>

\* C30: after k iterations the writing loop has created files/1.txt ..
\* files/k.txt, files/i.txt holding the cleaned text of the i-th article,
\* and nothing else; at the end of the loop that is files/1.txt ..
\* files/N.txt, one file for each article.
C30_ArticleToFile ==
    pc = "write" =>
        /\ id = idx
        /\ \A i \in 1..idx :
              /\ NumberedPaths[i] \in DOMAIN files
              /\ files[NumberedPaths[i]] = get_text(df_articles[i])
        /\ idx >= 1 => DOMAIN files = {NumberedPaths[i] : i \in 1..idx}
        /\ (idx = Len(df_articles) /\ idx >= 1) =>
              Cardinality(DOMAIN files) = Len(df_articles)

C30_Witness ==
    /\ pc = "write"
    /\ Len(df_articles) = 3
    /\ idx = 3
    /\ df_articles[1] = "<p>Apple</p>"
    /\ df_articles[2] = "Apple"
    /\ files["files/1.txt"] = "Apple"
    /\ files["files/3.txt"] = "ParisJane"

====
